---------------------------- MODULE Spec2Model ----------------------------
(***************************************************************************)
(* A model of switchy/models.py: the Events collection, the Session built  *)
(* on it, the Call made of Sessions and the Job future.                    *)
(*                                                                         *)
(* Python values are modelled as follows.                                  *)
(*   - a header value is a string; None is the string bound to None below; *)
(*   - an ESL event is a function from HeaderNames to header values, and   *)
(*     getHeader of a name outside HeaderNames is None;                    *)
(*   - a key handed to get / [] is tagged: <<"str", name>> or <<"int", i>>;*)
(*   - the outcome of a call is a record [kind, val], kind being "return", *)
(*     "event" (a raw event returned) or "raise".                          *)
(***************************************************************************)
EXTENDS Integers, Sequences, FiniteSets, TLC

\* ------------------------------------------------------------------ bounds
\* Longest ledger the model folds.
MaxEvents == 3

\* Threads that use the Job.
NThreads == 2

\* Calls begun on the Job, of any kind (so at most MaxCalls completing calls
\* and MaxCalls + 1 events in its ledger).
MaxCalls == 3

\* Legs of the Call.
MaxLegs == 3

\* ------------------------------------------------------------ Python values
None == "<None>"

\* `if value:` on a header value: None and the empty string are falsy.
Truthy(v) == v # None /\ v # ""

HeaderNames == {"Unique-ID", "Call-Direction", "Job-UUID", "0"}

\* ESLEvent.getHeader(name): the header's value, None when the event has none.
GetHeader(ev, name) == IF name \in DOMAIN ev THEN ev[name] ELSE None

\* The events a connection delivers in this model.
Event(uid, dir, zero) ==
    [h \in HeaderNames |->
        CASE h = "Unique-ID" -> uid
          [] h = "Call-Direction" -> dir
          [] h = "0" -> zero
          [] OTHER -> None]

\* Events folded into a bare ledger: Call-Direction absent, empty or set,
\* and a header whose name is the text of a position, absent or set.
LedgerEvents ==
    { Event(None, dir, None) : dir \in {None, "", "inbound", "outbound"} }
        \cup { Event(None, dir, "z") : dir \in {None, "inbound"} }

\* Decimal digits of the positions the model uses.
Digits == <<"0", "1", "2", "3", "4", "5", "6", "7", "8", "9">>

\* str(key): a string key is itself, an int key is its decimal text.
Str(key) == IF key[1] = "int" THEN Digits[key[2] + 1] ELSE key[2]

IsInt(key) == key[1] = "int"

StrKeys == { <<"str", h>> : h \in HeaderNames \cup {"Nonexistent-Header"} }
IntKeys == { <<"int", i>> : i \in 0..MaxEvents }
Keys == StrKeys \cup IntKeys

Defaults == {None, "dflt"}

Return(v) == [kind |-> "return", val |-> v]
ReturnEvent(ev) == [kind |-> "event", val |-> ev]
Raise(e) == [kind |-> "raise", val |-> e]

\* ------------------------------------------------------------------- state
\* An Events object used on its own.
VARIABLES
    events,     \* Events._events, head first
    evLog,      \* history: the events folded, in the order they were folded
    evSeeded,   \* history: whether the constructor was given an event
    evUpdates,  \* history: number of update calls made on the object
    evOut       \* the last call made on the object and its outcome

\* A Session.
VARIABLES
    sState,     \* "none" before a Session is constructed, "live" after
    sEvents,    \* Session.events._events, head first
    sUuid,      \* Session.uuid
    sCon,       \* Session.con
    sAux,       \* Session.vars, duration, bg_job, answered, ..., timestamps
    sent,       \* the commands the last call handed to a connection, in order
    sLog,       \* history: the events folded, in the order they were folded
    sOut        \* the last call made and its outcome

\* A Job and the threads that use it.
VARIABLES
    jEvents,    \* Job.events._events, head first
    sig,        \* Job._sig: whether the mp.Event is set
    result,     \* Job._result
    failed,     \* Job._failed
    cb,         \* Job._cb: None or the callback
    kwargs,     \* Job.kwargs
    th,         \* per thread: the call it is in and its position in it
    nCalls,     \* history: number of calls begun on the Job
    firstResp,  \* history: the response of the completing call begun first
    firstSetter \* history: the call that set the signal first

\* A Call and its legs.  A leg is a Session, kept as its id and connection.
VARIABLES
    cState,     \* "none" before a Call is constructed, "live" after
    cUuid,      \* Call.uuid
    cSessions,  \* Call.sessions, the deque's left end first
    cPrimary,   \* history: the Session the Call was constructed with
    cOut        \* the last call made on the Call and its outcome

evVars == <<events, evLog, evSeeded, evUpdates, evOut>>
sVars == <<sState, sEvents, sUuid, sCon, sAux, sent, sLog, sOut>>
jVars ==
    <<jEvents, sig, result, failed, cb, kwargs, th, nCalls, firstResp,
      firstSetter>>
\* Jobs made one after the other by the same Job.__init__.
VARIABLES
    kwDefault,  \* the dict that is the default of __init__'s kwargs parameter
    pJobs,      \* per Job: its fields, kwargs held by reference
    pOut        \* the last call made on one of these Jobs

cVars == <<cState, cUuid, cSessions, cPrimary, cOut>>
pVars == <<kwDefault, pJobs, pOut>>
vars == <<evVars, sVars, jVars, cVars, pVars>>

\* ------------------------------------------------------------ class Events
\* A deque that overwrites its head instead of growing.
ReplaceHead(evs, ev) == IF evs = <<>> THEN <<ev>> ELSE <<ev>> \o Tail(evs)

\* deque.appendleft, as Events.update uses it: the event becomes the head.
AppendLeft(evs, ev) == <<ev>> \o evs

\* Events.get: walk the deque from its head, return the first truthy header.
RECURSIVE GetFrom(_, _, _, _)
GetFrom(evs, i, key, default) ==
    IF i > Len(evs) THEN default
    ELSE LET value == GetHeader(evs[i], Str(key))
         IN IF Truthy(value) THEN value
            ELSE GetFrom(evs, i + 1, key, default)

\* The same walk started from the tail of the deque (oldest event first).
RECURSIVE GetBack(_, _, _, _)
GetBack(evs, i, key, default) ==
    IF i < 1 THEN default
    ELSE LET value == GetHeader(evs[i], Str(key))
         IN IF Truthy(value) THEN value
            ELSE GetBack(evs, i - 1, key, default)

EventsGetOldestFirst(evs, key, default) == GetBack(evs, Len(evs), key, default)

EventsGet(evs, key, default) == GetFrom(evs, 1, key, default)

\* Events.__getitem__: the header value when get finds one, else the raw
\* event at an int position (IndexError past the end), else KeyError.
EventsGetItem(evs, key) ==
    LET value == EventsGet(evs, key, None)
    IN IF Truthy(value) THEN Return(value)
       ELSE IF IsInt(key) THEN
                IF key[2] + 1 \in 1..Len(evs) THEN ReturnEvent(evs[key[2] + 1])
                ELSE Raise("IndexError")
            ELSE Raise("KeyError")

NoCall == [op |-> "none"]

\* Events.__init__: an empty deque, and update(event) when one is given.
EventsInit ==
    /\ \/ /\ evSeeded = FALSE
          /\ events = <<>>
          /\ evLog = <<>>
       \/ /\ evSeeded = TRUE
          /\ \E seed \in LedgerEvents :
                /\ events = AppendLeft(<<>>, seed)
                /\ evLog = <<seed>>
    /\ evUpdates = 0
    /\ evOut = NoCall

EventsUpdate(ev) ==
    /\ Len(events) < MaxEvents
    /\ events' = AppendLeft(events, ev)
    /\ evLog' = Append(evLog, ev)
    /\ evUpdates' = evUpdates + 1
    /\ evOut' = [op |-> "update"]
    /\ UNCHANGED <<evSeeded, sVars, jVars, cVars, pVars>>

EventsLen ==
    /\ evOut' = [op |-> "len", out |-> Return(Len(events))]
    /\ UNCHANGED <<events, evLog, evSeeded, evUpdates, sVars, jVars, cVars,
                   pVars>>

EventsCallGet(key, default) ==
    /\ evOut' = [op |-> "get", key |-> key, default |-> default,
                 out |-> Return(EventsGet(events, key, default))]
    /\ UNCHANGED <<events, evLog, evSeeded, evUpdates, sVars, jVars, cVars,
                   pVars>>

EventsCallGetItem(key) ==
    /\ evOut' = [op |-> "getitem", key |-> key,
                 out |-> EventsGetItem(events, key)]
    /\ UNCHANGED <<events, evLog, evSeeded, evUpdates, sVars, jVars, cVars,
                   pVars>>

EventsNext ==
    \/ \E ev \in LedgerEvents : EventsUpdate(ev)
    \/ EventsLen
    \/ \E key \in Keys, default \in Defaults : EventsCallGet(key, default)
    \/ \E key \in Keys : EventsCallGetItem(key)

\* ----------------------------------------------------------- class Session
\* Events delivered for a call leg: most carry the leg's Unique-ID, and
\* Call-Direction is absent, empty or set.
SessionEvents ==
    { Event("U1", dir, None) : dir \in {None, "", "inbound", "outbound"} }
        \cup { Event(None, dir, None) : dir \in {None, "inbound"} }

\* The uuid argument of the constructor: omitted, or an id of the caller's.
UuidArgs == {None, "X9"}

\* The con argument of the constructor: omitted, or a connection.
ConArgs == {None, "con1"}

\* float('inf'), the timestamps' "not yet" value.
Inf == "inf"

\* The attributes Session.__init__ sets besides events, uuid and con.
NewAux ==
    [vars |-> "{}", duration |-> 0, bg_job |-> None, answered |-> FALSE,
     num_sessions |-> None, call |-> None, hungup |-> FALSE,
     create_time |-> Inf, answer_time |-> Inf, originate_time |-> Inf]

SessionInit ==
    /\ sState = "none"
    /\ sEvents = <<>>
    /\ sUuid = None
    /\ sCon = None
    /\ sAux = None
    /\ sent = <<>>
    /\ sLog = <<>>
    /\ sOut = NoCall

\* Session.__init__: build the ledger, resolve the id with a strict lookup
\* of Unique-ID (a KeyError leaves no Session), let a truthy uuid argument
\* replace it, and keep the connection.
SessionNewFrom(uuid, evs, con) ==
    LET found == EventsGetItem(evs, <<"str", "Unique-ID">>)
    IN /\ sState = "none"
       /\ sent' = <<>>
       /\ UNCHANGED <<evVars, jVars, cVars, pVars>>
       /\ IF found.kind = "raise" THEN
              /\ sOut' = [op |-> "new", uuid |-> uuid, evs |-> evs,
                          out |-> found]
              /\ UNCHANGED <<sState, sEvents, sUuid, sCon, sAux, sLog>>
          ELSE
              /\ sState' = "live"
              /\ sEvents' = evs
              /\ sLog' = evs
              /\ sUuid' = IF Truthy(uuid) THEN uuid ELSE found.val
              /\ sCon' = con
              /\ sAux' = NewAux
              /\ sOut' = [op |-> "new", uuid |-> uuid, evs |-> evs,
                          out |-> Return(None)]

SessionNew(uuid, con) ==
    \/ SessionNewFrom(uuid, <<>>, con)
    \/ \E seed \in SessionEvents :
            SessionNewFrom(uuid, AppendLeft(<<>>, seed), con)

\* An update that also notes the event in the answered flag.
SessionUpdateFlagging(ev) ==
    /\ sState = "live"
    /\ Len(sEvents) < MaxEvents
    /\ sEvents' = AppendLeft(sEvents, ev)
    /\ sLog' = Append(sLog, ev)
    /\ sAux' = [sAux EXCEPT !.answered = TRUE]
    /\ sent' = <<>>
    /\ sOut' = [op |-> "update"]
    /\ UNCHANGED <<sState, sUuid, sCon, evVars, jVars, cVars, pVars>>

\* Session.update: fold the event into the ledger.
SessionUpdate(ev) ==
    /\ sState = "live"
    /\ Len(sEvents) < MaxEvents
    /\ sEvents' = AppendLeft(sEvents, ev)
    /\ sLog' = Append(sLog, ev)
    /\ sOut' = [op |-> "update"]
    /\ sent' = <<>>
    /\ UNCHANGED <<sState, sUuid, sCon, sAux, evVars, jVars, cVars, pVars>>

\* Session.get: the ledger's get.
SessionGet(evs, key, default) == Return(EventsGet(evs, key, default))

\* A lookup that hands back whatever get finds, None included.
SessionGetItemLenient(evs, key) == Return(EventsGet(evs, key, None))

\* Session.__getitem__: the ledger's [], its KeyError raised again with the
\* key and the session id in the message.
SessionGetItem(evs, key) ==
    LET r == EventsGetItem(evs, key)
    IN IF r.kind = "raise" /\ r.val = "KeyError" THEN Raise("KeyError") ELSE r

\* Session.is_inbound / is_outbound: self['Call-Direction'] == literal.
SessionDirectionIs(evs, literal) ==
    LET r == SessionGetItem(evs, <<"str", "Call-Direction">>)
    IN IF r.kind = "raise" THEN r ELSE Return(r.val = literal)

SessionCallGet(key, default) ==
    /\ sState = "live"
    /\ sOut' = [op |-> "get", key |-> key, default |-> default,
                out |-> SessionGet(sEvents, key, default)]
    /\ sent' = <<>>
    /\ UNCHANGED <<sState, sEvents, sUuid, sCon, sAux, sLog, evVars, jVars,
                   cVars, pVars>>

SessionCallGetItem(key) ==
    /\ sState = "live"
    /\ sOut' = [op |-> "getitem", key |-> key,
                out |-> SessionGetItem(sEvents, key)]
    /\ sent' = <<>>
    /\ UNCHANGED <<sState, sEvents, sUuid, sCon, sAux, sLog, evVars, jVars,
                   cVars, pVars>>

SessionIsInbound ==
    /\ sState = "live"
    /\ sOut' = [op |-> "is_inbound",
                out |-> SessionDirectionIs(sEvents, "inbound")]
    /\ sent' = <<>>
    /\ UNCHANGED <<sState, sEvents, sUuid, sCon, sAux, sLog, evVars, jVars,
                   cVars, pVars>>

SessionIsOutbound ==
    /\ sState = "live"
    /\ sOut' = [op |-> "is_outbound",
                out |-> SessionDirectionIs(sEvents, "outbound")]
    /\ sent' = <<>>
    /\ UNCHANGED <<sState, sEvents, sUuid, sCon, sAux, sLog, evVars, jVars,
                   cVars, pVars>>

\* ---------------------------------------------- Session: issuing commands
\* A string is kept as the sequence of its pieces: the literal parts of a
\* format template and the values put into it.  '' is the empty sequence.
\* sep.join(items), items being a sequence of strings.
RECURSIVE Join(_, _)
Join(sep, items) ==
    IF items = <<>> THEN <<>>
    ELSE IF Len(items) = 1 THEN items[1]
    ELSE items[1] \o sep \o Join(sep, Tail(items))

\* '='.join(map(str, pair)) for one (key, value) pair.
PairText(pair) == <<pair[1], "=", pair[2]>>

\* int(timeout): a float loses its fraction.
IntOf(t) == IF t = "2.7" THEN "2" ELSE t

\* Arguments of the command methods.
Causes == {"NORMAL_CLEARING", "USER_BUSY"}
Delays == {"5", "2.7"}
Flags == {TRUE, FALSE}
Legs == {<<>>, <<"bleg">>}
Paths == {<<"echo::">>}
Profiles == {"${sofia_profile_name}", "internal"}
DestUrls == {"${sip_req_user}", "1000"}

\* A mapping handed to bridge or setvars, as the pairs the caller wrote, in
\* the order written.
Mappings ==
    {<<>>, <<<<"a", "1">>>>, <<<<"a", "1">>, <<"b", "2">>>>,
     <<<<"b", "2">>, <<"a", "1">>>>}

\* The params argument of bridge: False when omitted, or a mapping.
ParamsFalse == [given |-> FALSE, pairs |-> <<>>]
ParamsOf(m) == [given |-> TRUE, pairs |-> m]
BridgeParams == {ParamsFalse} \cup { ParamsOf(m) : m \in Mappings }

\* mapping.iteritems(): every pair once, in the order the dict yields them,
\* which is the dict's own and not the order the caller wrote.
IterItems(m) ==
    { [i \in 1..Len(m) |-> m[f[i]]] :
        f \in { g \in [1..Len(m) -> 1..Len(m)] :
                    \A i, j \in 1..Len(m) : i # j => g[i] # g[j] } }

\* A broadcast that leaves out the leg and the space before it.
BroadcastCmdNoLeg(uuid, path, leg) == <<"uuid_broadcast ", uuid, " ">> \o path

\* 'uuid_broadcast {} {} {}'.format(self.uuid, path, leg)
BroadcastCmd(uuid, path, leg) ==
    <<"uuid_broadcast ", uuid, " ">> \o path \o <<" ">> \o leg

\* str('uuid_kill %s %s' % (self.uuid, cause))
HangupCmd(uuid, cause) == <<"uuid_kill ", uuid, " ", cause>>

\* The varset of bridge: ','.join(pairs), pairs being '' when params is
\* falsy (False, or an empty mapping).
BridgeVarset(items) ==
    Join(<<",">>, [i \in 1..Len(items) |-> PairText(items[i])])

\* "bridge::{{{varset}}}sofia/{}/{}".format(profile, dest_url, varset=...)
BridgePath(profile, dest_url, items) ==
    <<"bridge::{">> \o BridgeVarset(items)
        \o <<"}sofia/", profile, "/", dest_url>>

\* A command method that also folds a note of the command into the ledger.
SessionCommandFolding(call, cmds) ==
    /\ sState = "live"
    /\ sent' = IF sCon = None THEN <<>>
               ELSE [i \in 1..Len(cmds) |-> [con |-> sCon, cmd |-> cmds[i]]]
    /\ sOut' = IF sCon = None THEN [call EXCEPT !.out = Raise("AttributeError")]
               ELSE call
    /\ sEvents' = IF Len(sEvents) < MaxEvents
                  THEN AppendLeft(sEvents, Event(sUuid, None, None))
                  ELSE sEvents
    /\ UNCHANGED <<sState, sUuid, sCon, sAux, sLog, evVars, jVars, cVars,
                   pVars>>

\* self.con.api(cmd) for each command of a method, in order: with no
\* connection bound the first attribute access on None raises and nothing
\* is sent.  Nothing else of the Session is touched.
SessionCommand(call, cmds) ==
    /\ sState = "live"
    /\ IF sCon = None
       THEN /\ sent' = <<>>
            /\ sOut' = [call EXCEPT !.out = Raise("AttributeError")]
       ELSE /\ sent' = [i \in 1..Len(cmds) |-> [con |-> sCon, cmd |-> cmds[i]]]
            /\ sOut' = call
    /\ UNCHANGED <<sState, sEvents, sUuid, sCon, sAux, sLog, evVars, jVars,
                   cVars, pVars>>

Done(op) == [op |-> op, out |-> Return(None)]

SessionSetvar(var, value) ==
    SessionCommand(Done("setvar"),
        <<BroadcastCmd(sUuid, <<"set::", var, "=", value>>, <<>>)>>)

SessionUnsetvar(var) ==
    SessionCommand(Done("unsetvar"),
        <<BroadcastCmd(sUuid, <<"unset::", var>>, <<>>)>>)

SessionAnswer ==
    SessionCommand(Done("answer"), <<BroadcastCmd(sUuid, <<"answer::">>, <<>>)>>)

SessionHangup(cause) ==
    SessionCommand(Done("hangup"), <<HangupCmd(sUuid, cause)>>)

SessionSchedHangup(timeout, cause) ==
    SessionCommand(Done("sched_hangup"),
        <<<<"sched_hangup +", timeout, " ", sUuid, " ", cause>>>>)

SessionSchedDtmf(delay, sequence, tone_duration) ==
    LET cmd == <<"sched_api +", delay, " none uuid_send_dtmf ", sUuid, " ",
                 sequence>>
    IN SessionCommand(Done("sched_dtmf"),
          <<IF tone_duration # None THEN cmd \o <<" @", tone_duration>>
            ELSE cmd>>)

\* playback: the leg argument is not used, the command always says aleg.
SessionPlayback(file_path, leg) ==
    SessionCommand(Done("playback"),
        <<<<"uuid_broadcast ", sUuid, " playback::", file_path, " aleg">>>>)

SessionBypassMedia(state) ==
    SessionCommand(Done("bypass_media"),
        <<IF state THEN <<"uuid_media off ", sUuid>>
          ELSE <<"uuid_media ", sUuid>>>>)

SessionAppBreak ==
    SessionCommand(Done("app_break"), <<<<"uuid_break ", sUuid>>>>)

SessionStartAmd(timeout) ==
    LET start == <<"avmd ", sUuid, " start">>
        stop == <<"sched_api +", IntOf(timeout), " none avmd ", sUuid, " stop">>
    IN SessionCommand(Done("start_amd"),
          IF timeout # None THEN <<start, stop>> ELSE <<start>>)

SessionStopAmd ==
    SessionCommand(Done("stop_amd"), <<<<"avmd ", sUuid, " stop">>>>)

SessionPark ==
    SessionCommand(Done("park"), <<<<"uuid_park ", sUuid>>>>)

SessionBroadcast(path, leg) ==
    SessionCommand(Done("broadcast"), <<BroadcastCmd(sUuid, path, leg)>>)

\* bridge: the pairs come from params.iteritems() when params is truthy (a
\* mapping that is not empty) and are '' otherwise; the rest is broadcast.
SessionBridge(profile, dest_url, params) ==
    \E items \in (IF params.given /\ params.pairs # <<>>
                  THEN IterItems(params.pairs) ELSE {<<>>}) :
        SessionCommand(
            [op |-> "bridge", profile |-> profile, dest_url |-> dest_url,
             params |-> params, out |-> Return(None)],
            <<BroadcastCmd(sUuid, BridgePath(profile, dest_url, items), <<>>)>>)

\* setvars: the generator's iterable is pairs.iteritems(), read at once,
\* and pairs is the local the line is about to bind: UnboundLocalError
\* before anything is formatted or sent.
SessionSetvars(params) ==
    /\ sState = "live"
    /\ sent' = <<>>
    /\ sOut' = [op |-> "setvars", params |-> params,
                out |-> Raise("UnboundLocalError")]
    /\ UNCHANGED <<sState, sEvents, sUuid, sCon, sAux, sLog, evVars, jVars,
                   cVars, pVars>>

\* Connections a caller can hand to __enter__.
Connections == {"con1", "con2"}

\* session.__enter__(connection), called as a method.
SessionEnter(connection) ==
    /\ sState = "live"
    /\ sCon' = connection
    /\ sOut' = [op |-> "__enter__", out |-> Return("self")]
    /\ sent' = <<>>
    /\ UNCHANGED <<sState, sEvents, sUuid, sAux, sLog, evVars, jVars, cVars,
                   pVars>>

\* session.__exit__(exc_type, exc_value, traceback), called as a method,
\* with or without an exception to report.
SessionExit(exc) ==
    /\ sState = "live"
    /\ sCon' = None
    /\ sOut' = [op |-> "__exit__", exc |-> exc, out |-> Return(None)]
    /\ sent' = <<>>
    /\ UNCHANGED <<sState, sEvents, sUuid, sAux, sLog, evVars, jVars, cVars,
                   pVars>>

\* `with session: body`.  The statement calls __enter__ with the Session
\* alone; __enter__ requires a connection argument too, so the call raises
\* TypeError: the body does not run and __exit__ is not called.
SessionWith(body) ==
    /\ sState = "live"
    /\ sOut' = [op |-> "with", body |-> body, ran |-> FALSE,
                out |-> Raise("TypeError")]
    /\ sent' = <<>>
    /\ UNCHANGED <<sState, sEvents, sUuid, sCon, sAux, sLog, evVars, jVars,
                   cVars, pVars>>

\* What the body of a with block does: finish, or raise.
Bodies == {"completes", "raises"}

\* Events that arrive for a leg while commands are being issued.
ProgressEvents == {Event("U1", None, None), Event("U1", "inbound", None)}

SessionCommandNext ==
    \/ \E uuid \in UuidArgs, con \in ConArgs : SessionNew(uuid, con)
    \/ \E ev \in ProgressEvents : SessionUpdate(ev)
    \/ SessionSetvar("v", "1")
    \/ SessionUnsetvar("v")
    \/ SessionAnswer
    \/ \E cause \in Causes : SessionHangup(cause)
    \/ \E timeout \in Delays, cause \in Causes :
            SessionSchedHangup(timeout, cause)
    \/ \E delay \in Delays, tone \in {None, "80"} :
            SessionSchedDtmf(delay, "12#", tone)
    \/ \E leg \in {"aleg", "bleg"} : SessionPlayback("/tmp/a.wav", leg)
    \/ \E state \in Flags : SessionBypassMedia(state)
    \/ SessionAppBreak
    \/ \E timeout \in Delays \cup {None} : SessionStartAmd(timeout)
    \/ SessionStopAmd
    \/ SessionPark
    \/ \E path \in Paths, leg \in Legs : SessionBroadcast(path, leg)
    \/ \E profile \in Profiles, dest_url \in DestUrls,
          params \in BridgeParams :
            SessionBridge(profile, dest_url, params)
    \/ \E params \in Mappings : SessionSetvars(params)
    \/ \E connection \in Connections : SessionEnter(connection)
    \/ \E exc \in {None, "ValueError"} : SessionExit(exc)
    \/ \E body \in Bodies : SessionWith(body)

SessionNext ==
    \/ \E uuid \in UuidArgs, con \in ConArgs : SessionNew(uuid, con)
    \/ \E ev \in SessionEvents : SessionUpdate(ev)
    \/ \E key \in Keys, default \in Defaults : SessionCallGet(key, default)
    \/ \E key \in Keys : SessionCallGetItem(key)
    \/ SessionIsInbound
    \/ SessionIsOutbound

\* -------------------------------------------------------------- class Call
\* Sessions that can be legs of a Call: an id and a connection, or none.
LegSessions ==
    { [uuid |-> u, con |-> c] : u \in {"U1", "U2"}, c \in {None} \cup Connections }

CallInit ==
    /\ cState = "none"
    /\ cUuid = None
    /\ cSessions = <<>>
    /\ cPrimary = None
    /\ cOut = NoCall

\* Call.__init__: a deque holding the one Session.
CallNew(uuid, session) ==
    /\ cState = "none"
    /\ cState' = "live"
    /\ cUuid' = uuid
    /\ cSessions' = Append(<<>>, session)
    /\ cPrimary' = session
    /\ cOut' = [op |-> "new", out |-> Return(None)]
    /\ UNCHANGED <<evVars, sVars, jVars, pVars>>

\* call.sessions.append(session): a further leg joins at the right end.
CallAppend(session) ==
    /\ cState = "live"
    /\ Len(cSessions) < MaxLegs
    /\ cSessions' = Append(cSessions, session)
    /\ cOut' = [op |-> "append", out |-> Return(None)]
    /\ UNCHANGED <<cState, cUuid, cPrimary, evVars, sVars, jVars, pVars>>

\* Session.hangup of a leg: self.con.api('uuid_kill <uuid> <cause>'), an
\* AttributeError when the leg has no connection.
LegHangup(leg, cause) ==
    IF leg.con = None THEN <<>>
    ELSE <<[con |-> leg.con, cmd |-> HangupCmd(leg.uuid, cause)]>>

\* A hangup of every leg of the Call.
CallHangupAll ==
    /\ cState = "live"
    /\ sent' = [i \in 1..Len(cSessions) |->
                    [con |-> cSessions[i].con,
                     cmd |-> HangupCmd(cSessions[i].uuid, "NORMAL_CLEARING")]]
    /\ cOut' = [op |-> "hangup", out |-> Return(None)]
    /\ UNCHANGED <<cState, cUuid, cSessions, cPrimary, evVars, jVars, pVars,
                   sState, sEvents, sUuid, sCon, sAux, sLog, sOut>>

\* Call.hangup: self.sessions[0].hangup(), with the default cause.
CallHangup ==
    /\ cState = "live"
    /\ sent' = LegHangup(cSessions[1], "NORMAL_CLEARING")
    /\ cOut' = [op |-> "hangup",
                out |-> IF cSessions[1].con = None
                        THEN Raise("AttributeError") ELSE Return(None)]
    /\ UNCHANGED <<cState, cUuid, cSessions, cPrimary, evVars, jVars, pVars,
                   sState, sEvents, sUuid, sCon, sAux, sLog, sOut>>

CallNext ==
    \/ \E uuid \in {"C1"}, session \in LegSessions : CallNew(uuid, session)
    \/ \E session \in LegSessions : CallAppend(session)
    \/ CallHangup

\* --------------------------------------------------------------- class Job
\* Job values: a value is a sequence of tokens, so that wrapped and
\* transformed values stay comparable with raw ones.
JNone == <<"None">>

\* JobError(value): the error wrapping a value.
JobError(v) == <<"JobError">> \o v

IsJobError(v) == v[1] = "JobError"

\* Responses handed to complete / fail.
Resps == {<<"a">>, <<"b">>}

\* Keyword payloads: a dict over KwKeys, Absent marking a missing key.
Absent == "<absent>"
KwKeys == {"a"}
NoKw == [k \in KwKeys |-> Absent]
KwArgs == {NoKw, [k \in KwKeys |-> "1"]}

\* dict.update
DictUpdate(d, e) == [k \in KwKeys |-> IF e[k] # Absent THEN e[k] ELSE d[k]]

\* The callback's return value for a response and a keyword payload.
CbApply(resp, kw) == <<"cb">> \o resp \o <<kw["a"]>>

\* The timeout argument of get / wait: omitted, or a number of seconds.
NoTimeout == <<"none">>
Seconds(n) == <<"sec", n>>
Timeouts == {NoTimeout, Seconds(0), Seconds(1)}
WaitTimeouts == {NoTimeout, Seconds(1)}
TimeoutGiven(timeout) == timeout[1] = "sec"

\* `elif timeout:` None and 0 are falsy.
TimeoutTruthy(timeout) == timeout[1] = "sec" /\ timeout[2] # 0

\* What `raise TimeoutError(...)` in Job.get raises: the name is looked up
\* in the module and the builtins, never in the class body, so it is the
\* builtin TimeoutError where the interpreter has one and a NameError where
\* it has none; Job.TimeoutError is not reachable by that name.
RaisedForTimeout == {"builtins.TimeoutError", "NameError"}

\* Events of a background job.
JobEvent(juid) == [h \in HeaderNames |-> IF h = "Job-UUID" THEN juid ELSE None]
JobEvents == {JobEvent("J1")}

\* The threads that use the Job, and one more for the runs in which every
\* thread but one waits.
Threads == 1..NThreads
AllThreads == 1..(NThreads + 1)

\* The frame of a thread that is in no call.
Idle ==
    [op |-> "idle", pc |-> "idle", resp |-> JNone, kw |-> NoKw,
     timeout |-> NoTimeout, ready |-> FALSE, ret |-> JNone, late |-> FALSE]

\* Job.__init__ with an event carrying Job-UUID, with or without a callback,
\* and with the default kwargs.
JobInit ==
    /\ jEvents = AppendLeft(<<>>, JobEvent("J1"))
    /\ sig = FALSE
    /\ result = JNone
    /\ failed = FALSE
    /\ cb \in {None, "cb"}
    /\ kwargs = NoKw
    /\ th = [t \in AllThreads |-> Idle]
    /\ nCalls = 0
    /\ firstResp = JNone
    /\ firstSetter = "none"

\* A call is begun by a thread that is in no call.  Threads keep nothing
\* from one call to the next, so the lowest-numbered free thread stands for
\* any free thread.  A call begins with its first access to the Job.
Free(t) ==
    /\ th[t].pc = "idle"
    /\ \A u \in AllThreads : u < t => th[u].pc # "idle"
    /\ nCalls < MaxCalls
    /\ nCalls' = nCalls + 1

\* The call of thread t ends: `out` goes to its caller, and the thread is
\* in no call.
Ends(t, out) == th' = [th EXCEPT ![t] = Idle]

\* Job.__call__, first statement with a callback: self.kwargs.update(kwargs)
CallKwUpdate(t, frame) ==
    /\ kwargs' = DictUpdate(kwargs, frame.kw)
    /\ th' = [th EXCEPT ![t] = [frame EXCEPT !.pc = "store", !.kw = NoKw]]
    /\ UNCHANGED result

\* Job.__call__: self._result = self._cb(resp, **self.kwargs), or = resp.
Produced(resp) == IF cb # None THEN CbApply(resp, kwargs) ELSE resp

CallStore(t, frame) ==
    /\ result' = Produced(frame.resp)
    /\ th' = [th EXCEPT ![t] = [frame EXCEPT !.pc = "set", !.resp = JNone,
                                              !.kw = NoKw]]
    /\ UNCHANGED kwargs

\* Job.__call__ from its `if self._cb:` on.
CallEntry(t, frame) ==
    IF cb # None THEN CallKwUpdate(t, frame) ELSE CallStore(t, frame)

\* A thread calls job(resp, **kw).
JobComplete(t, resp, kw) ==
    /\ Free(t)
    /\ CallEntry(t, [Idle EXCEPT !.op = "complete", !.resp = resp,
                                 !.kw = kw, !.late = sig])
    /\ firstResp' = IF firstResp = JNone THEN resp ELSE firstResp
    /\ UNCHANGED <<jEvents, sig, failed, cb, firstSetter>>
    /\ UNCHANGED <<evVars, sVars, cVars, pVars>>

\* A thread calls job.fail(resp, **kw): self._failed = True comes first.
JobFail(t, resp, kw) ==
    /\ Free(t)
    /\ failed' = TRUE
    /\ th' = [th EXCEPT ![t] =
                [Idle EXCEPT !.op = "fail", !.pc = "call", !.resp = resp,
                             !.kw = IF cb # None THEN kw ELSE NoKw,
                             !.late = sig]]
    /\ firstResp' = IF firstResp = JNone THEN resp ELSE firstResp
    /\ UNCHANGED <<jEvents, sig, result, cb, kwargs, firstSetter>>
    /\ UNCHANGED <<evVars, sVars, cVars, pVars>>

\* Job.fail: the call self(resp, *args, **kwargs) is entered.
JobFailCall(t) ==
    /\ th[t].pc = "call"
    /\ CallEntry(t, th[t])
    /\ UNCHANGED <<jEvents, sig, failed, cb, nCalls, firstResp, firstSetter>>
    /\ UNCHANGED <<evVars, sVars, cVars, pVars>>

\* Job.__call__ with a callback, after the kwargs are merged.
JobStore(t) ==
    /\ th[t].pc = "store"
    /\ CallStore(t, th[t])
    /\ UNCHANGED <<jEvents, sig, failed, cb, nCalls, firstResp, firstSetter>>
    /\ UNCHANGED <<evVars, sVars, cVars, pVars>>

\* Job.__call__: self._sig.set()
JobSigSet(t) ==
    /\ th[t].pc = "set"
    /\ sig' = TRUE
    /\ firstSetter' = IF sig THEN firstSetter ELSE th[t].op
    /\ th' = [th EXCEPT ![t].pc = "ret"]
    /\ UNCHANGED <<jEvents, result, failed, cb, kwargs, nCalls, firstResp>>
    /\ UNCHANGED <<evVars, sVars, cVars, pVars>>

\* Job.__call__: return self._result; complete ends here, fail goes on.
JobCallReturn(t) ==
    /\ th[t].pc = "ret"
    /\ IF th[t].op = "fail"
       THEN th' = [th EXCEPT ![t].pc = "wrap", ![t].ret = result]
       ELSE Ends(t, Return(result))
    /\ UNCHANGED <<jEvents, sig, result, failed, cb, kwargs, nCalls, firstResp,
                   firstSetter>>
    /\ UNCHANGED <<evVars, sVars, cVars, pVars>>

\* Job.fail: self._result = JobError(<what the call returned>)
JobFailWrap(t) ==
    /\ th[t].pc = "wrap"
    /\ result' = JobError(th[t].ret)
    /\ Ends(t, Return(JNone))
    /\ UNCHANGED <<jEvents, sig, failed, cb, kwargs, nCalls, firstResp,
                   firstSetter>>
    /\ UNCHANGED <<evVars, sVars, cVars, pVars>>

\* A thread calls job.get(timeout) (job.result is job.get()) and reaches
\* the wait.
JobGet(t, timeout) ==
    /\ Free(t)
    /\ th' = [th EXCEPT ![t] =
                [Idle EXCEPT !.op = "get", !.pc = "wait", !.timeout = timeout]]
    /\ UNCHANGED <<jEvents, sig, result, failed, cb, kwargs, firstResp,
                   firstSetter>>
    /\ UNCHANGED <<evVars, sVars, cVars, pVars>>

\* A thread calls job.wait(timeout) and reaches the wait.
JobWait(t, timeout) ==
    /\ Free(t)
    /\ th' = [th EXCEPT ![t] =
                [Idle EXCEPT !.op = "wait", !.pc = "wait", !.timeout = timeout]]
    /\ UNCHANGED <<jEvents, sig, result, failed, cb, kwargs, firstResp,
                   firstSetter>>
    /\ UNCHANGED <<evVars, sVars, cVars, pVars>>

\* An Event that clears itself when it releases a waiter.
SigAfterWaitAutoReset(s) == FALSE

\* mp.Event.wait leaves the Event as it is.
SigAfterWait(s) == s

\* A wait that cancels the Job when its timeout runs out.
JobSigWaitCancelling(t) ==
    /\ th[t].pc = "wait"
    /\ \E ready \in BOOLEAN :
          /\ ready = sig
          /\ ready \/ TimeoutGiven(th[t].timeout)
          /\ sig' = TRUE
          /\ failed' = IF ready THEN failed ELSE TRUE
          /\ IF th[t].op = "get"
             THEN th' = [th EXCEPT ![t].pc = "get_ret", ![t].ready = ready]
             ELSE Ends(t, Return(JNone))
    /\ UNCHANGED <<jEvents, result, cb, kwargs, nCalls, firstResp,
                   firstSetter>>
    /\ UNCHANGED <<evVars, sVars, cVars, pVars>>

\* self._sig.wait(timeout): True once the Event is set; with a timeout it
\* may also give up, returning False, while the Event is unset; without one
\* it blocks.  Job.get goes on to its `if ready:`; Job.wait ends.
JobSigWait(t) ==
    /\ th[t].pc = "wait"
    /\ \E ready \in BOOLEAN :
          /\ ready = sig
          /\ ready \/ TimeoutGiven(th[t].timeout)
          /\ sig' = IF ready THEN SigAfterWait(sig) ELSE sig
          /\ IF th[t].op = "get"
             THEN th' = [th EXCEPT ![t].pc = "get_ret", ![t].ready = ready]
             ELSE Ends(t, Return(JNone))
    /\ UNCHANGED <<jEvents, result, failed, cb, kwargs, nCalls, firstResp,
                   firstSetter>>
    /\ UNCHANGED <<evVars, sVars, cVars, pVars>>

\* Job.get after the wait: the result when ready, the raise when the
\* timeout is truthy, and otherwise the end of the function (None).
GetOutcome(ready, timeout, res) ==
    IF ready THEN {Return(res)}
    ELSE IF TimeoutTruthy(timeout)
         THEN { Raise(e) : e \in RaisedForTimeout }
         ELSE {Return(JNone)}

JobGetReturn(t) ==
    /\ th[t].pc = "get_ret"
    /\ \E out \in GetOutcome(th[t].ready, th[t].timeout, result) :
            Ends(t, out)
    /\ UNCHANGED <<jEvents, sig, result, failed, cb, kwargs, nCalls, firstResp,
                   firstSetter>>
    /\ UNCHANGED <<evVars, sVars, cVars, pVars>>

\* Job.ready: self._sig.is_set()
JobReady(t) ==
    /\ Free(t)
    /\ Ends(t, Return(sig))
    /\ UNCHANGED <<jEvents, sig, result, failed, cb, kwargs, firstResp,
                   firstSetter>>
    /\ UNCHANGED <<evVars, sVars, cVars, pVars>>

\* Job.successful: assert self.ready(), 'Job has not completed yet'
JobSuccessful(t) ==
    /\ Free(t)
    /\ IF sig
       THEN th' = [th EXCEPT ![t] =
                     [Idle EXCEPT !.op = "successful", !.pc = "read_failed"]]
       ELSE Ends(t, Raise("AssertionError"))
    /\ UNCHANGED <<jEvents, sig, result, failed, cb, kwargs, firstResp,
                   firstSetter>>
    /\ UNCHANGED <<evVars, sVars, cVars, pVars>>

\* Job.successful: return not self._failed
JobSuccessfulReturn(t) ==
    /\ th[t].pc = "read_failed"
    /\ Ends(t, Return(~failed))
    /\ UNCHANGED <<jEvents, sig, result, failed, cb, kwargs, nCalls, firstResp,
                   firstSetter>>
    /\ UNCHANGED <<evVars, sVars, cVars, pVars>>

\* An update that arms the Job again.
JobUpdateRearm(t, ev) ==
    /\ Free(t)
    /\ jEvents' = AppendLeft(jEvents, ev)
    /\ sig' = FALSE
    /\ Ends(t, Return(JNone))
    /\ UNCHANGED <<result, failed, cb, kwargs, firstResp, firstSetter>>
    /\ UNCHANGED <<evVars, sVars, cVars, pVars>>

\* An update that takes the event for the Job's completion.
JobUpdateCompleting(t, ev) ==
    /\ Free(t)
    /\ jEvents' = AppendLeft(jEvents, ev)
    /\ result' = <<"event">>
    /\ sig' = TRUE
    /\ Ends(t, Return(JNone))
    /\ UNCHANGED <<failed, cb, kwargs, firstResp, firstSetter>>
    /\ UNCHANGED <<evVars, sVars, cVars, pVars>>

\* Job.update: fold the event into the Job's ledger.
JobUpdate(t, ev) ==
    /\ Free(t)
    /\ jEvents' = AppendLeft(jEvents, ev)
    /\ Ends(t, Return(JNone))
    /\ UNCHANGED <<sig, result, failed, cb, kwargs, firstResp, firstSetter>>
    /\ UNCHANGED <<evVars, sVars, cVars, pVars>>

\* A step of a call already begun by thread t.
JobStep(t) ==
    \/ JobFailCall(t)
    \/ JobStore(t)
    \/ JobSigSet(t)
    \/ JobCallReturn(t)
    \/ JobFailWrap(t)
    \/ JobSigWait(t)
    \/ JobGetReturn(t)
    \/ JobSuccessfulReturn(t)

JobNext ==
    \/ \E t \in Threads, resp \in Resps, kw \in KwArgs : JobComplete(t, resp, kw)
    \/ \E t \in Threads, resp \in Resps, kw \in KwArgs : JobFail(t, resp, kw)
    \/ \E t \in Threads, timeout \in Timeouts : JobGet(t, timeout)
    \/ \E t \in Threads, timeout \in WaitTimeouts : JobWait(t, timeout)
    \/ \E t \in Threads : JobReady(t)
    \/ \E t \in Threads : JobSuccessful(t)
    \/ \E t \in Threads, ev \in JobEvents : JobUpdate(t, ev)
    \/ \E t \in Threads : JobStep(t)

\* ------------------------------------------------- Jobs and their kwargs
\* Two Jobs made by the same Job.__init__.  The default of its kwargs
\* parameter is one dict, made when the function is defined: a Job made
\* without kwargs holds a reference to that dict, a Job made with kwargs
\* holds the caller's dict.  The calls are made one at a time.
JobIds == {1, 2}
PairKwArgs == KwArgs \cup {[k \in KwKeys |-> "2"]}
PairResp == <<"a">>
NoCbCall == "<not called>"
NotMade == [made |-> FALSE]

PairInit ==
    /\ kwDefault = NoKw
    /\ pJobs = [j \in JobIds |-> NotMade]
    /\ pOut = NoCall

\* Job.__init__, as far as kwargs, the callback and the completion fields
\* go.  given is false when the kwargs argument is left out.
PairNew(j, callback, given, kw) ==
    /\ ~pJobs[j].made
    /\ pJobs' = [pJobs EXCEPT ![j] =
            [made |-> TRUE, cb |-> callback, shared |-> ~given,
             own |-> IF given THEN kw ELSE NoKw,
             result |-> JNone, sig |-> FALSE, failed |-> FALSE,
             cbKw |-> NoCbCall, mine |-> IF given THEN kw ELSE NoKw]]
    /\ pOut' = [op |-> "new", job |-> j]
    /\ UNCHANGED <<kwDefault, evVars, sVars, jVars, cVars>>

\* self.kwargs of Job j: the dict its reference leads to.
KwOf(j) == IF pJobs[j].shared THEN kwDefault ELSE pJobs[j].own

\* Job.__call__ (fail false) or Job.fail (fail true) on Job j, start to
\* end: with a callback self.kwargs.update(kwargs) writes into the dict the
\* Job refers to, the callback gets that dict, its value is stored, the
\* signal is set; fail sets the flag first and wraps the value last.
PairCall(j, resp, kw, fail) ==
    LET job == pJobs[j]
        merged == IF job.cb # None THEN DictUpdate(KwOf(j), kw) ELSE KwOf(j)
        stored == IF job.cb # None THEN CbApply(resp, merged) ELSE resp
    IN /\ job.made
       /\ kwDefault' = IF job.shared THEN merged ELSE kwDefault
       /\ pJobs' = [pJobs EXCEPT ![j] =
               [job EXCEPT !.own = IF job.shared THEN job.own ELSE merged,
                           !.result = IF fail THEN JobError(stored) ELSE stored,
                           !.sig = TRUE,
                           !.failed = IF fail THEN TRUE ELSE job.failed,
                           !.cbKw = IF job.cb # None THEN merged ELSE job.cbKw,
                           !.mine = IF job.cb # None
                                    THEN DictUpdate(job.mine, kw) ELSE job.mine]]
       /\ pOut' = [op |-> IF fail THEN "fail" ELSE "complete", job |-> j]
       /\ UNCHANGED <<evVars, sVars, jVars, cVars>>

PairNext ==
    \/ \E j \in JobIds, callback \in {None, "cb"}, given \in BOOLEAN,
          kw \in PairKwArgs :
            PairNew(j, callback, given, IF given THEN kw ELSE NoKw)
    \/ \E j \in JobIds, kw \in PairKwArgs, fail \in BOOLEAN :
            PairCall(j, PairResp, kw, fail)

\* ------------------------------------------------------------ specifications
Init == EventsInit /\ SessionInit /\ CallInit /\ JobInit /\ PairInit

Next ==
    \/ EventsNext
    \/ SessionNext
    \/ SessionCommandNext
    \/ CallNext
    \/ JobNext
    \/ PairNext

\* Every object of the module, used side by side.
Spec == Init /\ [][Next]_vars

\* One Events object on its own: no Session is made, the Job is not used.
InitEvents == Init /\ cb = None

SpecEvents == InitEvents /\ [][EventsNext]_vars

\* One Session on its own.
InitSession == Init /\ evSeeded = FALSE /\ cb = None

SpecSession == InitSession /\ [][SessionNext]_vars

\* One Session and the commands it sends.
SpecCommands == InitSession /\ [][SessionCommandNext]_vars

\* One Call and its legs.
SpecCall == InitSession /\ [][CallNext]_vars

\* Two Jobs made by the same constructor.
SpecJobPair == InitSession /\ [][PairNext]_vars

\* One Job and its threads.
InitJob == Init /\ evSeeded = FALSE

SpecJob == InitJob /\ [][JobNext]_vars

\* One Job, completed by a single call job(x), and threads that call
\* job.get() without a timeout.  A thread inside a call keeps running: the
\* interpreter and the operating system schedule every runnable thread.
OnceStep(t) ==
    \/ JobStore(t)
    \/ JobSigSet(t)
    \/ JobCallReturn(t)
    \/ JobSigWait(t)
    \/ JobGetReturn(t)

\* The one completing call of the run.
OnceComplete(t, resp, kw) == firstResp = JNone /\ JobComplete(t, resp, kw)

OnceNext ==
    \/ \E t \in AllThreads : JobGet(t, NoTimeout)
    \/ \E t \in AllThreads, resp \in Resps, kw \in KwArgs :
            OnceComplete(t, resp, kw)
    \/ \E t \in AllThreads : OnceStep(t)

SpecJobOnce ==
    InitJob /\ [][OnceNext]_vars /\ \A t \in AllThreads : WF_vars(OnceStep(t))

\* One Job, completed by a single call job(x), and threads that call get
\* with and without a timeout and wait with one, scheduled as above.
AbandonNext ==
    \/ \E t \in AllThreads, timeout \in Timeouts : JobGet(t, timeout)
    \/ \E t \in AllThreads : JobWait(t, Seconds(1))
    \/ \E t \in AllThreads, kw \in KwArgs : OnceComplete(t, <<"a">>, kw)
    \/ \E t \in AllThreads : OnceStep(t)

SpecJobAbandon ==
    InitJob /\ [][AbandonNext]_vars /\ \A t \in AllThreads : WF_vars(OnceStep(t))

\* ------------------------------------------------- claims about Events
\* Positions in the history (oldest first) whose event has a non-empty value
\* for the header `name`.
Exposing(log, name) ==
    { i \in 1..Len(log) : GetHeader(log[i], name) \notin {None, ""} }

MaxOf(S) == CHOOSE m \in S : \A n \in S : n <= m

\* C1: get(key, default) returns the value of `key` from the most recently
\* folded event among those with a non-empty value for it, and `default`
\* when no folded event has one.
C1_GetNewestNonEmpty ==
    evOut.op = "get" =>
        LET name == Str(evOut.key)
            S == Exposing(evLog, name)
        IN IF S = {} THEN evOut.out = Return(evOut.default)
           ELSE evOut.out = Return(GetHeader(evLog[MaxOf(S)], name))

\* C1 witness: a get that skipped an empty newest value and returned the
\* value of an older event, with a still older event holding another value.
C1_Witness ==
    /\ evOut.op = "get"
    /\ evOut.key = <<"str", "Call-Direction">>
    /\ Len(evLog) = 3
    /\ evLog[3]["Call-Direction"] = ""
    /\ evLog[2]["Call-Direction"] = "outbound"
    /\ evLog[1]["Call-Direction"] = "inbound"
    /\ evOut.out = Return("outbound")

\* C8 as claimed: ledger[i] is the (i+1)-th newest raw event for every
\* 0 <= i < length, whatever headers the events carry, and an index error
\* for i >= length.
C8_PositionalBypassesKeys ==
    (evOut.op = "getitem" /\ IsInt(evOut.key)) =>
        LET i == evOut.key[2]
        IN IF i < Len(evLog)
           THEN /\ evOut.out.kind = "event"
                /\ evOut.out.val = evLog[Len(evLog) - i]
           ELSE /\ evOut.out.kind = "raise"
                /\ evOut.out.val \in {"IndexError", "KeyError"}

\* C9: the length is the number of events folded (the update calls, plus
\* one when seeded), len() reports it, every update adds exactly one and no
\* operation makes it smaller.
C9_LengthCountsFolds ==
    /\ [](Len(events) = evUpdates + (IF evSeeded THEN 1 ELSE 0))
    /\ [](evOut.op = "len" =>
            evOut.out = Return(evUpdates + (IF evSeeded THEN 1 ELSE 0)))
    /\ [][/\ Len(events') >= Len(events)
          /\ evUpdates' = evUpdates + 1 => Len(events') = Len(events) + 1]_vars

\* C9 witness: a seeded ledger after two updates reports length 3.
C9_Witness ==
    /\ evSeeded
    /\ evUpdates = 2
    /\ evOut.op = "len"
    /\ evOut.out = Return(3)

\* ------------------------------------------------ claims about Session
\* C10: on a Session, get(key, default) returns `default` when no folded
\* event has a non-empty value for the key and never raises; session[key]
\* raises KeyError in that case; both give the newest non-empty value when
\* there is one; is_inbound / is_outbound raise KeyError when no folded
\* event has a Call-Direction, and compare the newest one otherwise.
C10_GetDefaultsItemRaises ==
    /\ sOut.op = "get" =>
          LET name == Str(sOut.key)
              S == Exposing(sLog, name)
          IN /\ sOut.out.kind = "return"
             /\ sOut.out.val = IF S = {} THEN sOut.default
                               ELSE GetHeader(sLog[MaxOf(S)], name)
    /\ (sOut.op = "getitem" /\ ~IsInt(sOut.key)) =>
          LET name == Str(sOut.key)
              S == Exposing(sLog, name)
          IN IF S = {}
             THEN sOut.out.kind = "raise" /\ sOut.out.val = "KeyError"
             ELSE /\ sOut.out.kind = "return"
                  /\ sOut.out.val = GetHeader(sLog[MaxOf(S)], name)
    /\ sOut.op \in {"is_inbound", "is_outbound"} =>
          LET S == Exposing(sLog, "Call-Direction")
              literal == IF sOut.op = "is_inbound" THEN "inbound"
                         ELSE "outbound"
          IN IF S = {}
             THEN sOut.out.kind = "raise" /\ sOut.out.val = "KeyError"
             ELSE /\ sOut.out.kind = "return"
                  /\ sOut.out.val =
                        (GetHeader(sLog[MaxOf(S)], "Call-Direction") = literal)

\* C10 witness: session["Call-Direction"] raises KeyError on a Session
\* that folded three events, the newest with an empty Call-Direction.
C10_Witness ==
    /\ sState = "live"
    /\ Len(sLog) = 3
    /\ sLog[3]["Call-Direction"] = ""
    /\ sOut.op = "getitem"
    /\ sOut.key = <<"str", "Call-Direction">>
    /\ sOut.out.kind = "raise"
    /\ sOut.out.val = "KeyError"

\* C11 as claimed: a constructor given an id makes a Session with that id,
\* whatever the seed (none, or one without Unique-ID); without an id the
\* Session's id is the seed's Unique-ID, and the constructor raises KeyError
\* when the seed has none.
C11_ExplicitIdOverrides ==
    sOut.op = "new" =>
        LET seedId == IF sOut.evs = <<>> THEN None
                      ELSE GetHeader(sOut.evs[1], "Unique-ID")
        IN IF Truthy(sOut.uuid)
           THEN /\ sOut.out.kind = "return"
                /\ sState = "live"
                /\ sUuid = sOut.uuid
           ELSE IF Truthy(seedId)
           THEN /\ sOut.out.kind = "return"
                /\ sState = "live"
                /\ sUuid = seedId
           ELSE sOut.out = Raise("KeyError")

\* C13 as claimed: a with block on the Session runs its body with a
\* connection bound, and after the block, whether the body finished or
\* raised, the connection is cleared.
C13_ScopedConnectionCleared ==
    sOut.op = "with" =>
        /\ sOut.ran
        /\ sOut.out = (IF sOut.body = "raises" THEN Raise("body")
                       ELSE Return(None))
        /\ sCon = None

\* C14 as claimed: setvars(mapping) on a Session with a connection sends
\* exactly one command, uuid_setvar_multi with the Session's id and the
\* mapping's key=value pairs joined by ';', and raises nothing.
C14_SetvarsOneCommand ==
    (sOut.op = "setvars" /\ sCon # None) =>
        /\ sOut.out.kind = "return"
        /\ \E items \in IterItems(sOut.params) :
              sent = <<[con |-> sCon,
                        cmd |-> <<"uuid_setvar_multi ", sUuid, " ">>
                                  \o Join(<<";">>,
                                          [i \in 1..Len(items) |->
                                              <<items[i][1], "=", items[i][2]>>])]>>

\* k1=v1,k2=v2,... for the pairs of a sequence, in its order.
RECURSIVE VarsetOf(_)
VarsetOf(items) ==
    IF items = <<>> THEN <<>>
    ELSE LET n == Len(items)
         IN (IF n = 1 THEN <<>> ELSE VarsetOf(SubSeq(items, 1, n - 1)) \o <<",">>)
                \o <<items[n][1], "=", items[n][2]>>

\* C15 as claimed: bridge on a Session with a connection sends exactly one
\* command and the command is bridge::{k1=v1,...}sofia/{profile}/{dest_url}
\* with the pairs in the order supplied (none when params is omitted).
C15_BridgeCommandAsClaimed ==
    (sOut.op = "bridge" /\ sCon # None) =>
        sent = <<[con |-> sCon,
                  cmd |-> <<"bridge::{">> \o VarsetOf(sOut.params.pairs)
                            \o <<"}sofia/", sOut.profile, "/", sOut.dest_url>>]>>

\* C15 amended: bridge on a Session with a connection returns normally and
\* sends exactly one command, broadcast's
\* 'uuid_broadcast {uuid} {path} ' with an empty leg, whose path is
\* bridge::{k1=v1,...}sofia/{profile}/{dest_url}, every pair of params once
\* and in the order the mapping yields them (none when params is omitted or
\* empty).
C15_BridgeBroadcastsPath ==
    (sOut.op = "bridge" /\ sCon # None) =>
        /\ sOut.out = Return(None)
        /\ \E items \in IterItems(sOut.params.pairs) :
              sent = <<[con |-> sCon,
                        cmd |-> <<"uuid_broadcast ", sUuid, " ", "bridge::{">>
                                  \o VarsetOf(items)
                                  \o <<"}sofia/", sOut.profile, "/",
                                       sOut.dest_url, " ">>]>>

\* C15 witness: a bridge with two pairs was sent with the pairs in the other
\* order than the caller wrote them.
C15_Witness ==
    /\ sOut.op = "bridge"
    /\ sCon = "con1"
    /\ sOut.params = ParamsOf(<<<<"a", "1">>, <<"b", "2">>>>)
    /\ Len(sent) = 1
    /\ sent[1].cmd = <<"uuid_broadcast ", sUuid, " ", "bridge::{", "b", "=",
                       "2", ",", "a", "=", "1", "}sofia/", "internal", "/",
                       "1000", " ">>

\* The command methods of a Session that the claims name.
CommandOps ==
    {"setvar", "unsetvar", "answer", "hangup", "sched_hangup", "sched_dtmf",
     "playback", "bypass_media", "app_break", "start_amd", "stop_amd", "park",
     "broadcast", "bridge"}

\* C17: no command method changes the Session's ledger: the events and
\* their number are the same after the call as before it (get and [] read
\* nothing but the events, so they find the same), whether the command was
\* sent or the call failed for want of a connection.
C17_CommandsKeepLedger ==
    [][sOut'.op \in CommandOps =>
          /\ sEvents' = sEvents
          /\ Len(sEvents') = Len(sEvents)
          /\ sLog' = sLog]_vars

\* C17 witness: start_amd with a timeout has sent its two commands on a
\* Session that has folded three events.
C17_Witness ==
    /\ sOut.op = "start_amd"
    /\ Len(sent) = 2
    /\ Len(sEvents) = 3

\* C19: Session.update only puts the event at the head of the ledger: the
\* events already folded keep their places behind it, and the id, the
\* connection and the auxiliary fields (variables, duration, job and call
\* references, flags, timestamps) are unchanged and no command is sent.
C19_UpdateOnlyFolds ==
    [][sOut'.op = "update" =>
          /\ Len(sEvents') = Len(sEvents) + 1
          /\ Tail(sEvents') = sEvents
          /\ sUuid' = sUuid
          /\ sCon' = sCon
          /\ sAux' = sAux
          /\ sent' = <<>>]_vars

\* C19 witness: an update has been folded, as the third event, into a
\* Session that was given its id by the caller and its connection through
\* __enter__.
C19_Witness ==
    /\ sOut.op = "update"
    /\ sUuid = "X9"
    /\ sCon = "con2"
    /\ Len(sEvents) = 3
    /\ sAux = NewAux

\* -------------------------------------------------- claims about Call
\* C12: a hangup of the Call sends exactly one command, uuid_kill with the
\* id of the Session the Call was made with, to that Session's connection,
\* whatever legs were appended since (nothing at all, and an error, when
\* that Session has no connection); no leg of the Call is changed.
C12_HangupOnlyPrimary ==
    /\ [](cOut.op = "hangup" =>
            IF cPrimary.con # None
            THEN /\ cOut.out = Return(None)
                 /\ sent = <<[con |-> cPrimary.con,
                              cmd |-> <<"uuid_kill ", cPrimary.uuid, " ",
                                        "NORMAL_CLEARING">>]>>
            ELSE /\ cOut.out.kind = "raise"
                 /\ sent = <<>>)
    /\ [][cOut'.op = "hangup" =>
            /\ cSessions' = cSessions
            /\ cPrimary' = cPrimary]_vars

\* C12 witness: a Call of three legs, the later ones with other ids and
\* connections than the first, has been hung up with one command.
C12_Witness ==
    /\ cOut.op = "hangup"
    /\ Len(cSessions) = 3
    /\ cPrimary = [uuid |-> "U1", con |-> "con1"]
    /\ cSessions[2] = [uuid |-> "U2", con |-> "con2"]
    /\ cSessions[3] = [uuid |-> "U2", con |-> "con1"]
    /\ Len(sent) = 1

\* ---------------------------------------------------- claims about Job
Completing == {"complete", "fail"}

\* C2 as claimed: once the signal is set, no step of a complete or fail
\* call begun afterwards changes the result slot.
C2_LaterCompletionsIgnored ==
    [][\A t \in AllThreads :
          (/\ th'[t] # th[t]
           /\ \/ th[t].op \in Completing /\ th[t].late
              \/ th'[t].op \in Completing /\ th'[t].late)
          => result' = result]_vars

\* C3 as claimed: whenever the signal has been set by a fail call, the
\* result slot holds a JobError and the failure flag is set.
C3_FailWrapsBeforeSignal ==
    (sig /\ firstSetter = "fail") => (IsJobError(result) /\ failed)

\* The value complete(x) stores on the Job of this run: x itself without a
\* callback, the callback's value for x and the Job's keywords with one.
StoredFor(x) == IF cb = None THEN x ELSE CbApply(x, kwargs)

\* C4: with one call complete(x) and any number of get() calls without a
\* timeout, before or after it, every get returns only when the signal is
\* set, returns what complete(x) stored, returns once, and no get begun or
\* pending once complete(x) is called stays blocked.
C4_EveryGetReturnsOnce ==
    /\ [](\A t \in AllThreads :
            th[t].pc = "get_ret" =>
                /\ th[t].ready
                /\ sig
                /\ GetOutcome(th[t].ready, th[t].timeout, result)
                        = {Return(StoredFor(firstResp))})
    /\ [][\A t \in AllThreads :
            th[t].pc = "get_ret" => th'[t].pc \in {"get_ret", "idle"}]_vars
    /\ \A t \in AllThreads :
            (th[t].pc = "wait" /\ firstResp # JNone) ~> (th[t].pc = "get_ret")
    /\ \A t \in AllThreads : (th[t].pc = "get_ret") ~> (th[t].pc = "idle")

\* C4 witness: two threads blocked in get() before the signal was set have
\* both been released and are about to return.
C4_Witness ==
    /\ sig
    /\ nCalls = 3
    /\ \E t, u \in AllThreads :
          /\ t # u
          /\ th[t].pc = "get_ret" /\ th[t].ready
          /\ th[u].pc = "get_ret" /\ th[u].ready

\* C5 as claimed: a get whose timeout was given and ran out raises
\* Job.TimeoutError and returns nothing; a get without a timeout comes
\* back only with the signal set and never with an error.
C5_TimeoutRaisesJobTimeout ==
    \A t \in AllThreads :
        th[t].pc = "get_ret" =>
            LET outs == GetOutcome(th[t].ready, th[t].timeout, result)
            IN /\ (TimeoutGiven(th[t].timeout) /\ ~th[t].ready) =>
                    outs = {Raise("Job.TimeoutError")}
               /\ ~TimeoutGiven(th[t].timeout) =>
                    (th[t].ready /\ \A out \in outs : out.kind = "return")

\* C6: the signal is unset until a complete or fail call is made, and once
\* set it is never unset by any call.
C6_ReadyOneShot ==
    /\ [](firstResp = JNone => ~sig)
    /\ [][sig => sig']_vars

\* C6 witness: the signal is set, an update has been folded since the Job
\* was made and a get has come back from its wait with the signal set.
C6_Witness ==
    /\ sig
    /\ Len(jEvents) = 2
    /\ \E t \in AllThreads : th[t].pc = "get_ret" /\ th[t].ready

\* C7 as claimed: successful() past its assertion returns true exactly when
\* the Job was completed through complete(), false exactly when through
\* fail().
C7_SuccessfulTellsHowCompleted ==
    \A t \in AllThreads :
        th[t].pc = "read_failed" => (~failed <=> firstSetter = "complete")

\* C18: Job.update only puts the event at the head of the Job's ledger: the
\* signal, the result slot and the failure flag are as before, and no thread
\* inside get, wait, ready or successful is moved by it.
C18_JobUpdateOnlyFolds ==
    [][jEvents' # jEvents =>
          /\ Tail(jEvents') = jEvents
          /\ sig' = sig
          /\ result' = result
          /\ failed' = failed
          /\ th' = th]_vars

\* C18 witness: two updates have been folded and the Job is still pending,
\* with a thread blocked in get.
C18_Witness ==
    /\ Len(jEvents) = 3
    /\ ~sig
    /\ result = JNone
    /\ \E t \in AllThreads : th[t].op = "get" /\ th[t].pc = "wait"

\* C16 as claimed: for Jobs made without a kwargs argument, a complete or
\* fail call on one Job leaves the keyword payload of every other Job as it
\* was, and the keywords a Job's callback receives are those given to that
\* Job's own calls.
C16_KwargsPerJob ==
    [][\A i \in JobIds :
          (pOut'.op \in Completing /\ pOut'.job = i /\ pJobs[i].shared) =>
              /\ \A j \in JobIds \ {i} :
                    (pJobs[j].made /\ pJobs[j].shared) => KwOf(j)' = KwOf(j)
              /\ pJobs'[i].cb # None => pJobs'[i].cbKw = pJobs'[i].mine]_vars

\* C20: a get or wait that gives up on its timeout leaves the Job as it
\* was: no step of a get or wait call changes the signal, the result slot,
\* the failure flag or the ledger, so the Job is still pending after it; a
\* complete(x) made later stores its value and sets the signal, and every
\* get that finds the signal set returns what complete(x) stored.
C20_AbandonedWaitLeavesJob ==
    /\ [][\A t \in AllThreads :
            (th'[t] # th[t] /\ (th[t].op \in {"get", "wait"}
                                \/ th'[t].op \in {"get", "wait"}))
            => <<sig, result, failed, jEvents>>' = <<sig, result, failed, jEvents>>]_vars
    /\ [](\A t \in AllThreads :
            (th[t].pc = "get_ret" /\ th[t].ready) =>
                /\ sig
                /\ GetOutcome(th[t].ready, th[t].timeout, result)
                        = {Return(StoredFor(firstResp))})
    /\ \A t \in AllThreads :
            (th[t].op = "complete") ~> (sig /\ result = StoredFor(firstResp))
    /\ \A t \in AllThreads :
            (th[t].op = "get" /\ th[t].pc = "wait" /\ firstResp # JNone)
                ~> (th[t].pc = "get_ret")

\* C20 witness: a get gave up on its timeout while the Job was pending, the
\* Job has been completed since, and a get begun afterwards found the signal
\* set.
C20_Witness ==
    /\ sig
    /\ \E t, u \in AllThreads :
          /\ th[t].pc = "get_ret" /\ ~th[t].ready /\ TimeoutGiven(th[t].timeout)
          /\ th[u].pc = "get_ret" /\ th[u].ready

=============================================================================
